---- MODULE Spec2Model ----
(***************************************************************************)
(* Parcel tracker: ParcelService (main.go) on top of ParcelStore           *)
(* (parcel.go), a thin layer over one SQL table "parcel".                  *)
(*                                                                         *)
(* The table maps a number to its row.  Every service method is one action: *)
(* it runs the store calls the Go code makes, in the code's order, and     *)
(* records what it returned in `last`.  Each store call may fail (the      *)
(* database returns an error); a failed SQL statement changes nothing.     *)
(***************************************************************************)
EXTENDS Integers, Sequences, FiniteSets, TLC

----------------------------------------------------------------------------
(* Bounds of the model *)

MaxSeq == 2
MaxClock == 1
TicksPerSec == 2
NumCallers == 2

Clients == {1, 2}
Addresses == {"A", "B"}
Numbers == 1..MaxSeq
Callers == 1..NumCallers

----------------------------------------------------------------------------
(* main.go: constants and the Parcel struct *)

ParcelStatusRegistered == "registered"
ParcelStatusSent == "sent"
ParcelStatusDelivered == "delivered"

\* error values: Go's nil, sql.ErrNoRows, any other database error
Nil == "nil"
ErrNoRows == "sql: no rows in result set"
ErrStorage == "database error"

\* the empty string a zero Parcel carries in CreatedAt
NoTime == -1

\* Parcel{} : the zero value of the struct
ZeroParcel ==
    [number |-> 0, client |-> 0, status |-> "", address |-> "", created_at |-> NoTime]

\* time.Now().UTC().Format(time.RFC3339): the layout has no fractional
\* seconds, so the instant is truncated to whole seconds
FormatRFC3339(t) == t \div TicksPerSec

----------------------------------------------------------------------------
(* State *)

VARIABLES
    parcel,           \* rows of table "parcel"
    sqlite_sequence,  \* largest number the table has ever assigned
    last,             \* the last service call: arguments, store calls, results
    issued,           \* history: number and client of every parcel Register returned
    removed,          \* history: numbers Delete was called on while registered
    run,              \* history: current run of consecutive NextStatus calls
    callers           \* concurrent callers: where each one is inside NextStatus

vars == <<parcel, sqlite_sequence, last, issued, removed, run, callers>>

\* the table is keyed by its primary key, the column "number"
StoredNumbers(tbl) == DOMAIN tbl
Rows(tbl) == {tbl[n] : n \in DOMAIN tbl}
EmptyTable == [n \in {} |-> ZeroParcel]

----------------------------------------------------------------------------
(* parcel.go: ParcelStore.  Each operator returns the new table together   *)
(* with the values the Go method returns.  `fail` is TRUE when the         *)
(* database call of the method returns an error.                           *)

\* largest number among the rows of tbl, 0 for an empty table
MaxRowid(tbl) ==
    IF DOMAIN tbl = {} THEN 0
    ELSE CHOOSE n \in DOMAIN tbl : \A m \in DOMAIN tbl : m <= n

\* variant: a rowid of a table without AUTOINCREMENT, one above the largest
\* number now in the table
NextRowid_max(tbl, seq) == MaxRowid(tbl) + 1

\* number the table gives the next inserted row.  The schema of table
\* "parcel" is not part of the Go sources; the number is store-assigned and
\* unique for the lifetime of the store, i.e. one above every number the
\* table has assigned so far.
NextRowid(tbl, seq) == seq + 1

\* variant: the INSERT leaves column created_at out
Add_nocreated(tbl, seq, p, fail) ==
    IF fail
    THEN [tbl |-> tbl, seq |-> seq, id |-> 0, err |-> ErrStorage]
    ELSE LET id == NextRowid(tbl, seq)
         IN [tbl |-> [n \in DOMAIN tbl \cup {id} |->
                         IF n = id THEN [p EXCEPT !.number = id, !.created_at = NoTime]
                         ELSE tbl[n]],
             seq |-> id, id |-> id, err |-> Nil]

\* `fail` is the error of db.Exec.  res.LastInsertId() has no failing outcome:
\* the result of the sqlite driver main.go imports always carries the rowid.
Add(tbl, seq, p, fail) ==
    IF fail
    THEN [tbl |-> tbl, seq |-> seq, id |-> 0, err |-> ErrStorage]
    ELSE LET id == NextRowid(tbl, seq)
         IN [tbl |-> [n \in DOMAIN tbl \cup {id} |->
                         IF n = id THEN [p EXCEPT !.number = id] ELSE tbl[n]],
             seq |-> id, id |-> id, err |-> Nil]

\* variant: the error of row.Scan is dropped, a missing row reads as Parcel{}
Get_noerr(tbl, number, fail) ==
    IF fail
    THEN [p |-> ZeroParcel, err |-> ErrStorage]
    ELSE IF number \notin DOMAIN tbl
         THEN [p |-> ZeroParcel, err |-> Nil]
         ELSE [p |-> tbl[number], err |-> Nil]

Get(tbl, number, fail) ==
    IF fail
    THEN [p |-> ZeroParcel, err |-> ErrStorage]
    ELSE IF number \notin DOMAIN tbl
         THEN [p |-> ZeroParcel, err |-> ErrNoRows]
         ELSE [p |-> tbl[number], err |-> Nil]

\* variant: the SELECT has no WHERE clause
ClientRows_all(tbl, client) == Rows(tbl)

\* the rows a SELECT ... WHERE client = :client returns
ClientRows(tbl, client) == {r \in Rows(tbl) : r.client = client}

\* every order in which the rows of S can come back (the query has no
\* ORDER BY)
Orderings(S) ==
    {s \in [1..Cardinality(S) -> S] : \A i, j \in 1..Cardinality(S) : s[i] = s[j] => i = j}

GetByClient(tbl, client, fail, order) ==
    IF fail
    THEN [res |-> <<>>, err |-> ErrStorage]
    ELSE [res |-> order, err |-> Nil]

\* variant: the UPDATE has no "WHERE number = :number"
SetStatus_all(tbl, number, status, fail) ==
    IF fail
    THEN [tbl |-> tbl, err |-> ErrStorage]
    ELSE [tbl |-> [n \in DOMAIN tbl |-> [tbl[n] EXCEPT !.status = status]],
          err |-> Nil]

\* variant: a failing UPDATE has written the row before it reports the error
SetStatus_dirty(tbl, number, status, fail) ==
    [tbl |-> IF number \in DOMAIN tbl
             THEN [tbl EXCEPT ![number].status = status] ELSE tbl,
     err |-> IF fail THEN ErrStorage ELSE Nil]

\* variant: the UPDATE binds the number to the wrong parameter and finds no row
SetStatus_miss(tbl, number, status, fail) ==
    [tbl |-> tbl, err |-> IF fail THEN ErrStorage ELSE Nil]

\* variant: an upsert, a missing row is inserted
SetStatus_upsert(tbl, number, status, fail) ==
    IF fail
    THEN [tbl |-> tbl, err |-> ErrStorage]
    ELSE [tbl |-> [n \in DOMAIN tbl \cup {number} |->
                      IF n = number
                      THEN [(IF n \in DOMAIN tbl THEN tbl[n] ELSE ZeroParcel) EXCEPT
                               !.number = number, !.status = status]
                      ELSE tbl[n]],
          err |-> Nil]

SetStatus(tbl, number, status, fail) ==
    IF fail
    THEN [tbl |-> tbl, err |-> ErrStorage]
    ELSE [tbl |-> IF number \in DOMAIN tbl
                  THEN [tbl EXCEPT ![number].status = status] ELSE tbl,
          err |-> Nil]

\* variant: the UPDATE has no "AND status = :status"
SetAddress_any(tbl, number, address, fail) ==
    IF fail
    THEN [tbl |-> tbl, err |-> ErrStorage]
    ELSE [tbl |-> IF number \in DOMAIN tbl
                  THEN [tbl EXCEPT ![number].address = address] ELSE tbl,
          err |-> Nil]

\* variant: the UPDATE only excludes delivered parcels
SetAddress_undelivered(tbl, number, address, fail) ==
    IF fail
    THEN [tbl |-> tbl, err |-> ErrStorage]
    ELSE [tbl |-> IF number \in DOMAIN tbl /\ tbl[number].status # ParcelStatusDelivered
                  THEN [tbl EXCEPT ![number].address = address] ELSE tbl,
          err |-> Nil]

SetAddress(tbl, number, address, fail) ==
    IF fail
    THEN [tbl |-> tbl, err |-> ErrStorage]
    ELSE [tbl |-> IF number \in DOMAIN tbl /\ tbl[number].status = ParcelStatusRegistered
                  THEN [tbl EXCEPT ![number].address = address] ELSE tbl,
          err |-> Nil]

\* variant: the DELETE has no "AND status = :status"
StoreDelete_any(tbl, number, fail) ==
    IF fail
    THEN [tbl |-> tbl, err |-> ErrStorage]
    ELSE [tbl |-> IF number \in DOMAIN tbl
                  THEN [n \in DOMAIN tbl \ {number} |-> tbl[n]] ELSE tbl,
          err |-> Nil]

\* variant: the DELETE is bound to status 'sent' instead of 'registered'
StoreDelete_sent(tbl, number, fail) ==
    IF fail
    THEN [tbl |-> tbl, err |-> ErrStorage]
    ELSE [tbl |-> IF number \in DOMAIN tbl /\ tbl[number].status = ParcelStatusSent
                  THEN [n \in DOMAIN tbl \ {number} |-> tbl[n]] ELSE tbl,
          err |-> Nil]

\* variant: a DELETE that removed no row is reported as an error
StoreDelete_rowcheck(tbl, number, fail) ==
    IF fail
    THEN [tbl |-> tbl, err |-> ErrStorage]
    ELSE IF number \in DOMAIN tbl /\ tbl[number].status = ParcelStatusRegistered
         THEN [tbl |-> [n \in DOMAIN tbl \ {number} |-> tbl[n]], err |-> Nil]
         ELSE [tbl |-> tbl, err |-> ErrNoRows]

StoreDelete(tbl, number, fail) ==
    IF fail
    THEN [tbl |-> tbl, err |-> ErrStorage]
    ELSE [tbl |-> IF number \in DOMAIN tbl /\ tbl[number].status = ParcelStatusRegistered
                  THEN [n \in DOMAIN tbl \ {number} |-> tbl[n]] ELSE tbl,
          err |-> Nil]

----------------------------------------------------------------------------
(* main.go: ParcelService *)

\* variant: the first case jumps to delivered
NextStatusOf_skip(status) ==
    CASE status = ParcelStatusRegistered -> ParcelStatusDelivered
      [] status = ParcelStatusSent -> ParcelStatusDelivered
      [] OTHER -> ""

\* variant: the second case writes sent again
NextStatusOf_stuck(status) ==
    CASE status = ParcelStatusRegistered -> ParcelStatusSent
      [] status = ParcelStatusSent -> ParcelStatusSent
      [] OTHER -> ""

\* variant: the case for sent is missing, nextStatus stays ""
NextStatusOf_nosent(status) ==
    CASE status = ParcelStatusRegistered -> ParcelStatusSent
      [] OTHER -> ""

\* the switch of NextStatus: the status to write, "" when no case matches
NextStatusOf(status) ==
    CASE status = ParcelStatusRegistered -> ParcelStatusSent
      [] status = ParcelStatusSent -> ParcelStatusDelivered
      [] OTHER -> ""

NoCall == [op |-> "none", number |-> 0, client |-> 0, address |-> "",
           fault |-> "none", err |-> Nil, ret |-> <<>>, calls |-> <<>>]

\* a caller that is not inside NextStatus
Idle == [pc |-> "idle", number |-> 0, status |-> "", stale |-> FALSE]

Init ==
    /\ callers = [k \in Callers |-> Idle]
    /\ parcel = EmptyTable
    /\ sqlite_sequence = 0
    /\ last = NoCall
    /\ issued = <<>>
    /\ removed = {}
    /\ run = <<>>

\* the instants time.Now() can return, in ticks; the code only formats the
\* reading and never compares two readings
Times == 0..MaxClock

Register(client, address, now, fault) ==
    /\ sqlite_sequence < MaxSeq
    /\ LET p0 == [number |-> 0, client |-> client, status |-> ParcelStatusRegistered,
                  address |-> address, created_at |-> FormatRFC3339(now)]
           a == Add(parcel, sqlite_sequence, p0, fault = "Add")
           p == IF a.err # Nil THEN p0 ELSE [p0 EXCEPT !.number = a.id]
       IN /\ parcel' = a.tbl
          /\ sqlite_sequence' = a.seq
          /\ last' = [NoCall EXCEPT !.op = "Register", !.client = client,
                         !.address = address, !.fault = fault, !.err = a.err,
                         !.ret = <<p>>, !.calls = <<"Add">>]
          /\ issued' = IF a.err = Nil
                       THEN Append(issued, [number |-> p.number, client |-> p.client])
                       ELSE issued
    /\ run' = <<>>
    /\ UNCHANGED <<removed, callers>>

\* a row's status in tbl, "" when the number has no row
StatusOf(tbl, number) ==
    IF number \in DOMAIN tbl THEN tbl[number].status ELSE ""

PrintClientParcels(client, fault) ==
    /\ \E order \in Orderings(ClientRows(parcel, client)) :
          LET g == GetByClient(parcel, client, fault = "GetByClient", order)
          IN last' = [NoCall EXCEPT !.op = "PrintClientParcels", !.client = client,
                         !.fault = fault, !.err = g.err, !.ret = g.res,
                         !.calls = <<"GetByClient">>]
    /\ run' = <<>>
    /\ UNCHANGED <<parcel, sqlite_sequence, issued, removed, callers>>

\* length of the run of NextStatus calls that `run` follows
RunLen == 3

NextStatus(number, fault) ==
    /\ LET g == Get(parcel, number, fault = "Get")
           stop == g.err # Nil \/ g.p.status = ParcelStatusDelivered
           s == IF stop THEN [tbl |-> parcel, err |-> g.err]
                ELSE SetStatus(parcel, number, NextStatusOf(g.p.status), fault = "SetStatus")
           step == [number |-> number, err |-> s.err, status |-> StatusOf(s.tbl, number)]
       IN /\ parcel' = s.tbl
          /\ last' = [NoCall EXCEPT !.op = "NextStatus", !.number = number,
                         !.fault = fault, !.err = s.err,
                         !.calls = IF stop THEN <<"Get">> ELSE <<"Get", "SetStatus">>]
          /\ run' = IF fault = "none" /\ StatusOf(parcel, number) = ParcelStatusRegistered
                    THEN <<step>>
                    ELSE IF /\ fault = "none" /\ run # <<>> /\ Len(run) < RunLen
                            /\ run[1].number = number
                         THEN Append(run, step)
                         ELSE <<>>
    /\ UNCHANGED <<sqlite_sequence, issued, removed, callers>>

ChangeAddress(number, address, fault) ==
    /\ LET s == SetAddress(parcel, number, address, fault = "SetAddress")
       IN /\ parcel' = s.tbl
          /\ last' = [NoCall EXCEPT !.op = "ChangeAddress", !.number = number,
                         !.address = address, !.fault = fault, !.err = s.err,
                         !.calls = <<"SetAddress">>]
    /\ run' = <<>>
    /\ UNCHANGED <<sqlite_sequence, issued, removed, callers>>

Delete(number, fault) ==
    /\ LET s == StoreDelete(parcel, number, fault = "Delete")
       IN /\ parcel' = s.tbl
          /\ last' = [NoCall EXCEPT !.op = "Delete", !.number = number,
                         !.fault = fault, !.err = s.err,
                         !.calls = <<"Delete">>]
          /\ removed' = IF fault = "none" /\ StatusOf(parcel, number) = ParcelStatusRegistered
                        THEN removed \cup {number} ELSE removed
    /\ run' = <<>>
    /\ UNCHANGED <<sqlite_sequence, issued, callers>>

Next ==
    \/ \E c \in Clients, a \in Addresses, t \in Times, f \in {"none", "Add"} :
          Register(c, a, t, f)
    \/ \E c \in Clients, f \in {"none", "GetByClient"} : PrintClientParcels(c, f)
    \/ \E n \in Numbers, f \in {"none", "Get", "SetStatus"} : NextStatus(n, f)
    \/ \E n \in Numbers, a \in Addresses, f \in {"none", "SetAddress"} : ChangeAddress(n, a, f)
    \/ \E n \in Numbers, f \in {"none", "Delete"} : Delete(n, f)

Spec == Init /\ [][Next]_vars

\* the single caller keeps calling NextStatus on every number, and the
\* database keeps answering: a call whose store calls succeed is not
\* postponed forever
\* Which client a parcel belongs to plays no part in its lifecycle: the
\* calls are those of Next, for one client.
LiveClients == {1}

LiveNext ==
    \/ \E c \in LiveClients, a \in Addresses, t \in Times, f \in {"none", "Add"} :
          Register(c, a, t, f)
    \/ \E c \in LiveClients, f \in {"none", "GetByClient"} : PrintClientParcels(c, f)
    \/ \E n \in Numbers, f \in {"none", "Get", "SetStatus"} : NextStatus(n, f)
    \/ \E n \in Numbers, a \in Addresses, f \in {"none", "SetAddress"} : ChangeAddress(n, a, f)
    \/ \E n \in Numbers, f \in {"none", "Delete"} : Delete(n, f)

SpecLive ==
    Init /\ [][LiveNext]_vars /\ \A n \in Numbers : WF_vars(NextStatus(n, "none"))

----------------------------------------------------------------------------
(* Several callers share the store.  Each SQL statement is atomic, so      *)
(* Register, ChangeAddress and Delete (one statement each) are one step;   *)
(* NextStatus is two steps, its Get and its SetStatus, and other callers'  *)
(* steps may come between them.  `last` names the step just taken.         *)

Step(op, number, address) ==
    [NoCall EXCEPT !.op = op, !.number = number, !.address = address]

ConcRegister(k, client, address, now) ==
    /\ callers[k].pc = "idle"
    /\ sqlite_sequence < MaxSeq
    /\ LET p0 == [number |-> 0, client |-> client, status |-> ParcelStatusRegistered,
                  address |-> address, created_at |-> FormatRFC3339(now)]
           a == Add(parcel, sqlite_sequence, p0, FALSE)
       IN /\ parcel' = a.tbl
          /\ sqlite_sequence' = a.seq
          /\ last' = Step("Register", a.id, address)
    /\ UNCHANGED <<issued, removed, run, callers>>

\* main.go:81-95: the read of NextStatus and its switch; the caller goes on
\* to SetStatus only with a row that is not delivered
NextStatusGet(k, number) ==
    /\ callers[k].pc = "idle"
    /\ LET g == Get(parcel, number, FALSE)
       IN callers' = IF g.err # Nil \/ g.p.status = ParcelStatusDelivered
                     THEN callers
                     ELSE [callers EXCEPT ![k] = [pc |-> "read", number |-> number,
                                                  status |-> g.p.status, stale |-> FALSE]]
    /\ last' = Step("Get", number, "")
    /\ UNCHANGED <<parcel, sqlite_sequence, issued, removed, run>>

\* main.go:100: the write of NextStatus, with the status computed from what
\* the caller read.  A caller that read the same status of the same parcel
\* and has not written yet is now `stale`, if this UPDATE found the row.
NextStatusSet(k, fail) ==
    /\ callers[k].pc = "read"
    /\ LET me == callers[k]
           s == SetStatus(parcel, me.number, NextStatusOf(me.status), fail)
           wrote == ~fail /\ me.number \in StoredNumbers(parcel)
       IN /\ parcel' = s.tbl
          /\ callers' = [j \in Callers |->
                           IF j = k THEN Idle
                           ELSE IF /\ wrote /\ callers[j].pc = "read"
                                   /\ callers[j].number = me.number
                                   /\ callers[j].status = me.status
                                THEN [callers[j] EXCEPT !.stale = TRUE]
                                ELSE callers[j]]
          /\ last' = [Step("SetStatus", me.number, "") EXCEPT
                         !.fault = IF fail THEN "SetStatus" ELSE "none"]
    /\ UNCHANGED <<sqlite_sequence, issued, removed, run>>

ConcChangeAddress(k, number, address) ==
    /\ callers[k].pc = "idle"
    /\ parcel' = SetAddress(parcel, number, address, FALSE).tbl
    /\ last' = Step("ChangeAddress", number, address)
    /\ UNCHANGED <<sqlite_sequence, issued, removed, run, callers>>

ConcDelete(k, number) ==
    /\ callers[k].pc = "idle"
    /\ parcel' = StoreDelete(parcel, number, FALSE).tbl
    /\ last' = Step("Delete", number, "")
    /\ UNCHANGED <<sqlite_sequence, issued, removed, run, callers>>

\* the client of a parcel plays no part in how the statements interleave:
\* the concurrent callers register for one client
ConcClients == {1}

ConcNext ==
    \/ \E k \in Callers, c \in ConcClients, a \in Addresses, t \in Times :
          ConcRegister(k, c, a, t)
    \/ \E k \in Callers, n \in Numbers : NextStatusGet(k, n)
    \/ \E k \in Callers, f \in BOOLEAN : NextStatusSet(k, f)
    \/ \E k \in Callers, n \in Numbers, a \in Addresses : ConcChangeAddress(k, n, a)
    \/ \E k \in Callers, n \in Numbers : ConcDelete(k, n)

SpecConc == Init /\ [][ConcNext]_vars

----------------------------------------------------------------------------
(* Properties.  A step that is not a stuttering step sets last.op to the   *)
(* method that ran, so `last'` names the call a step belongs to.           *)

Forward == {<<ParcelStatusRegistered, ParcelStatusSent>>,
            <<ParcelStatusSent, ParcelStatusDelivered>>}

StoreWorked == last.fault = "none"

\* C1: with a single caller, every change of a stored parcel's status is
\* registered -> sent or sent -> delivered: it never goes back and never
\* goes from registered to delivered in one step.
C1_StatusStepsForward ==
    [][\A n \in DOMAIN parcel \cap DOMAIN parcel' :
          parcel'[n].status # parcel[n].status
             => <<parcel[n].status, parcel'[n].status>> \in Forward]_vars

\* a NextStatus call has just moved a parcel from sent to delivered
C1_Witness ==
    /\ last.op = "NextStatus" /\ last.err = Nil
    /\ last.calls = <<"Get", "SetStatus">>
    /\ StatusOf(parcel, last.number) = ParcelStatusDelivered

\* C2: once a parcel's stored status is delivered, no service call changes
\* its status or address or removes it: the row stays as it is.
C2_DeliveredIsFrozen ==
    [][\A n \in DOMAIN parcel :
          parcel[n].status = ParcelStatusDelivered
             => n \in DOMAIN parcel' /\ parcel'[n] = parcel[n]]_vars

\* Delete has just been called on a delivered parcel
C2_Witness ==
    /\ last.op = "Delete" /\ StoreWorked
    /\ StatusOf(parcel, last.number) = ParcelStatusDelivered

\* C3: ChangeAddress(number, a) on a sent or delivered parcel changes no
\* stored data; on a registered parcel (the UPDATE not failing) it sets that
\* parcel's address to a.
C3_ChangeAddressGuard ==
    [][last'.op = "ChangeAddress" =>
          LET n == last'.number
          IN /\ StatusOf(parcel, n) \in {ParcelStatusSent, ParcelStatusDelivered}
                   => parcel' = parcel
             /\ StatusOf(parcel, n) = ParcelStatusRegistered /\ last'.fault = "none"
                   => /\ n \in DOMAIN parcel'
                      /\ parcel'[n].address = last'.address]_vars

\* ChangeAddress has just been called on a sent parcel with an address other
\* than the stored one
C3_Witness ==
    /\ last.op = "ChangeAddress" /\ StoreWorked
    /\ StatusOf(parcel, last.number) = ParcelStatusSent
    /\ parcel[last.number].address # last.address

\* the numbers of the parcels in a GetByClient result
NumbersIn(res) == {res[i].number : i \in 1..Len(res)}

\* C4: Delete(number) on a registered parcel removes it: from then on no
\* ListByClient result holds it and Get fails for it; Delete(number) on a
\* sent or delivered parcel leaves the row present and unchanged.
C4_DeleteGuard ==
    /\ [](\A n \in removed :
            /\ n \notin StoredNumbers(parcel)
            /\ Get(parcel, n, FALSE).err = ErrNoRows
            /\ last.op = "PrintClientParcels" => n \notin NumbersIn(last.ret))
    /\ [][last'.op = "Delete" =>
             LET n == last'.number
             IN /\ StatusOf(parcel, n) \in {ParcelStatusSent, ParcelStatusDelivered}
                      => parcel' = parcel
                /\ StatusOf(parcel, n) = ParcelStatusRegistered /\ last'.fault = "none"
                      => n \notin DOMAIN parcel']_vars

\* a client's parcels are listed after one of them was deleted while another
\* is still stored
C4_Witness ==
    /\ last.op = "PrintClientParcels" /\ StoreWorked
    /\ last.ret # <<>>
    /\ \E i \in 1..Len(issued) :
          issued[i].number \in removed /\ issued[i].client = last.client

\* C5: from a registered parcel, three NextStatus calls in a row (the store
\* not failing) all return nil and leave the status sent, delivered,
\* delivered; NextStatus on a delivered parcel returns nil and changes nothing.
C5_AdvanceThrice ==
    /\ [](\A i \in 1..Len(run) :
            /\ run[i].err = Nil
            /\ run[i].status = IF i = 1 THEN ParcelStatusSent ELSE ParcelStatusDelivered)
    /\ [][/\ last'.op = "NextStatus" /\ last'.fault # "Get"
           /\ StatusOf(parcel, last'.number) = ParcelStatusDelivered
           => parcel' = parcel /\ last'.err = Nil]_vars

\* the third call of such a run has returned
C5_Witness ==
    /\ Len(run) = RunLen
    /\ last.op = "NextStatus" /\ last.calls = <<"Get">>

\* C6: NextStatus on a number that has no row (never registered, or deleted)
\* returns Get's sql.ErrNoRows, does not call SetStatus and leaves the table
\* as it was.
C6_AdvanceNotFound ==
    [][/\ last'.op = "NextStatus" /\ last'.fault # "Get"
       /\ last'.number \notin StoredNumbers(parcel)
       => /\ last'.err = ErrNoRows
          /\ last'.calls = <<"Get">>
          /\ parcel' = parcel]_vars

\* NextStatus has just been called on the number of a deleted parcel
C6_Witness ==
    /\ last.op = "NextStatus" /\ StoreWorked
    /\ last.number \in removed
    /\ last.err = ErrNoRows

\* C7: after a successful Register(c, a), Get of the returned number yields
\* a row with status registered, client c, address a and the created_at that
\* Register returned, which is set.
C7_RegisterThenGet ==
    last.op = "Register" /\ last.err = Nil =>
        LET p == last.ret[1]
            g == Get(parcel, p.number, FALSE)
        IN /\ g.err = Nil
           /\ g.p.number = p.number
           /\ g.p.status = ParcelStatusRegistered
           /\ g.p.client = last.client
           /\ g.p.address = last.address
           /\ g.p.created_at = p.created_at
           /\ p.created_at # NoTime

\* a second parcel has just been registered next to a stored one
C7_Witness ==
    /\ last.op = "Register" /\ last.err = Nil
    /\ Cardinality(StoredNumbers(parcel)) >= 2

\* numbers Register returned for `client` and no Delete has removed
Expected(client) ==
    {issued[i].number : i \in {j \in 1..Len(issued) : issued[j].client = client}} \ removed

\* C8: ListByClient(c) (the store not failing) returns no error and exactly
\* the parcels registered with client c and not deleted, each once and as
\* now stored; an empty result when there is none.
C8_ListByClientExact ==
    last.op = "PrintClientParcels" /\ StoreWorked =>
        /\ last.err = Nil
        /\ NumbersIn(last.ret) = Expected(last.client)
        /\ Len(last.ret) = Cardinality(Expected(last.client))
        /\ \A i \in 1..Len(last.ret) :
              /\ last.ret[i].number \in StoredNumbers(parcel)
              /\ last.ret[i] = parcel[last.ret[i].number]
              /\ last.ret[i].client = last.client

\* a client's parcels are listed while a parcel of another client is stored
C8_Witness ==
    /\ last.op = "PrintClientParcels" /\ StoreWorked
    /\ last.ret # <<>>
    /\ \E n \in StoredNumbers(parcel) : parcel[n].client # last.client

\* C9: a number identifies at most one parcel over the life of the store:
\* the number a Register returns differs from the number of every earlier
\* Register, deleted parcels included.
C9_NumbersNeverReused ==
    \A i, j \in 1..Len(issued) : issued[i].number = issued[j].number => i = j

\* a parcel has just been registered after the parcel registered before it
\* was deleted
C9_Witness ==
    /\ last.op = "Register" /\ last.err = Nil
    /\ Len(issued) >= 2
    /\ issued[Len(issued) - 1].number \in removed

C11_DeleteSentFails ==
    last.op = "Delete" /\ StatusOf(parcel, last.number) = ParcelStatusSent
        => last.err # Nil

Statuses == {ParcelStatusRegistered, ParcelStatusSent, ParcelStatusDelivered}

\* C16: every stored status is registered, sent or delivered, and whenever
\* NextStatus calls SetStatus the status it passes is sent or delivered,
\* never the "" of a switch that matched no case.
C16_StatusDomain ==
    /\ [](\A n \in StoredNumbers(parcel) : parcel[n].status \in Statuses)
    /\ [][last'.op = "NextStatus" /\ last'.calls = <<"Get", "SetStatus">>
             => NextStatusOf(StatusOf(parcel, last'.number))
                   \in {ParcelStatusSent, ParcelStatusDelivered}]_vars

\* NextStatus has just written delivered over sent
C16_Witness ==
    /\ last.op = "NextStatus" /\ StoreWorked
    /\ last.calls = <<"Get", "SetStatus">>
    /\ Len(run) = 2
    /\ StatusOf(parcel, last.number) = ParcelStatusDelivered

\* row r with the status, or the address, taken from row q
WithStatusOf(r, q) == [r EXCEPT !.status = q.status]
WithAddressOf(r, q) == [r EXCEPT !.address = q.address]

\* C17: NextStatus(n) changes nothing but the status of parcel n,
\* ChangeAddress(n, a) nothing but the address of parcel n, Delete(n) removes
\* nothing but parcel n, Register adds one row and changes no other; a
\* stored parcel's number, client and created_at never change.
C17_Frame ==
    [][LET n == last'.number
           kept == DOMAIN parcel \cap DOMAIN parcel'
       IN /\ \A m \in kept :
                /\ parcel'[m].number = parcel[m].number
                /\ parcel'[m].client = parcel[m].client
                /\ parcel'[m].created_at = parcel[m].created_at
          /\ last'.op = "NextStatus" =>
                /\ DOMAIN parcel' = DOMAIN parcel
                /\ \A m \in kept : m # n => parcel'[m] = parcel[m]
                /\ n \in kept => parcel'[n] = WithStatusOf(parcel[n], parcel'[n])
          /\ last'.op = "ChangeAddress" =>
                /\ DOMAIN parcel' = DOMAIN parcel
                /\ \A m \in kept : m # n => parcel'[m] = parcel[m]
                /\ n \in kept => parcel'[n] = WithAddressOf(parcel[n], parcel'[n])
          /\ last'.op = "Delete" =>
                /\ DOMAIN parcel \ {n} \subseteq DOMAIN parcel'
                /\ DOMAIN parcel' \subseteq DOMAIN parcel
                /\ \A m \in kept : parcel'[m] = parcel[m]
          /\ last'.op = "Register" =>
                /\ DOMAIN parcel \subseteq DOMAIN parcel'
                /\ Cardinality(DOMAIN parcel' \ DOMAIN parcel) <= 1
                /\ last'.err = Nil => Cardinality(DOMAIN parcel' \ DOMAIN parcel) = 1
                /\ \A m \in kept : parcel'[m] = parcel[m]
          /\ last'.op = "PrintClientParcels" => parcel' = parcel]_vars

\* NextStatus has just advanced one of two stored parcels, the other one
\* still registered
C17_Witness ==
    /\ last.op = "NextStatus" /\ StoreWorked
    /\ last.calls = <<"Get", "SetStatus">>
    /\ \E m \in StoredNumbers(parcel) :
          m # last.number /\ parcel[m].status = ParcelStatusRegistered

Writes(k) == callers[k].pc = "read" /\ callers'[k].pc = "idle"

\* C12: with concurrent callers, two racing NextStatus calls cannot both
\* succeed against a stale read: when two callers have read the same status
\* of the same parcel before either wrote and one of them has written, the
\* write of the other changes nothing.
C12_OneWriteWins ==
    [][\A k \in Callers : Writes(k) /\ callers[k].stale => parcel' = parcel]_vars

Regress == {<<ParcelStatusDelivered, ParcelStatusSent>>,
            <<ParcelStatusSent, ParcelStatusRegistered>>,
            <<ParcelStatusDelivered, ParcelStatusRegistered>>}

\* C13: with concurrent callers, Get and SetStatus of NextStatus being
\* separate steps, a stored status still never goes back: not from delivered
\* to sent, not from sent or delivered to registered.
C13_NoRegress ==
    [][\A n \in DOMAIN parcel \cap DOMAIN parcel' :
          <<parcel[n].status, parcel'[n].status>> \notin Regress]_vars

\* C14: under any interleaving, a parcel whose stored status is sent or
\* delivered is never registered again, its address never changes and its
\* row is never removed.
C14_PastRegisteredIsGuarded ==
    [][\A n \in DOMAIN parcel :
          parcel[n].status \in {ParcelStatusSent, ParcelStatusDelivered}
             => /\ n \in DOMAIN parcel'
                /\ parcel'[n].status \in {ParcelStatusSent, ParcelStatusDelivered}
                /\ parcel'[n].address = parcel[n].address]_vars

\* ChangeAddress has just run, with another address, on a sent parcel while a
\* NextStatus call on that parcel is between its Get and its SetStatus
C14_Witness ==
    /\ last.op = "ChangeAddress"
    /\ StatusOf(parcel, last.number) = ParcelStatusSent
    /\ parcel[last.number].address # last.address
    /\ \E k \in Callers : callers[k].pc = "read" /\ callers[k].number = last.number

\* numbers the table has assigned and that have no row now: deleted parcels
Gone(tbl, seq) == (1..seq) \ StoredNumbers(tbl)

\* C15: a deleted row never reappears: the SetStatus of a NextStatus call that
\* read the parcel before a concurrent Delete removed it writes nothing; the
\* set of stored numbers grows only by Register and shrinks only by Delete.
C15_DeletedStaysDeleted ==
    [][/\ last'.op = "SetStatus" => DOMAIN parcel' = DOMAIN parcel
       /\ DOMAIN parcel' \ DOMAIN parcel # {} => last'.op = "Register"
       /\ DOMAIN parcel \ DOMAIN parcel' # {} => last'.op = "Delete"
       /\ Gone(parcel, sqlite_sequence) \subseteq Gone(parcel', sqlite_sequence')]_vars

\* a caller has just run its SetStatus on the number of a parcel that was
\* deleted after the caller read it
C15_Witness ==
    /\ last.op = "SetStatus" /\ last.fault = "none"
    /\ last.number \in Gone(parcel, sqlite_sequence)

\* C19: a registered parcel on which NextStatus keeps being called without
\* store failure, unless it is deleted, eventually is delivered; its status
\* gets there by the two transitions registered -> sent -> delivered and
\* then stays delivered.
C19_EventuallyDelivered ==
    /\ \A n \in Numbers :
          (StatusOf(parcel, n) = ParcelStatusRegistered)
             ~> (n \in removed \/ StatusOf(parcel, n) = ParcelStatusDelivered)
    /\ [][\A n \in Numbers :
             /\ StatusOf(parcel, n) = ParcelStatusRegistered
                   => StatusOf(parcel', n) \in {ParcelStatusRegistered, ParcelStatusSent, ""}
             /\ StatusOf(parcel, n) = ParcelStatusSent
                   => StatusOf(parcel', n) \in {ParcelStatusSent, ParcelStatusDelivered}
             /\ StatusOf(parcel, n) = ParcelStatusDelivered
                   => StatusOf(parcel', n) = ParcelStatusDelivered]_vars

\* NextStatus has been called once more on a parcel delivered earlier, after
\* other calls in between, and the parcel is still delivered
C19_Witness ==
    /\ last.op = "NextStatus" /\ StoreWorked /\ last.err = Nil
    /\ StatusOf(parcel, last.number) = ParcelStatusDelivered
    /\ run = <<>>

====
